---- MODULE Spec2Model ----
(***************************************************************************)
(* Model of the Web Vitals popup (src/browser_action/popup.js): the Popup  *)
(* constructor and init sequence, the rendering of the local metrics, the  *)
(* single CrUX.load call and its then/catch callbacks, and the animation   *)
(* frame callbacks scheduled by renderMetric.                              *)
(*                                                                         *)
(* crux.js and metric.js are imported by popup.js but are not part of the  *)
(* sources at hand; the few helpers of CrUX and Metric that popup.js calls *)
(* are modelled from the written specification and are marked as such.     *)
(*                                                                         *)
(* A popup that is closed loses its document and its pending callbacks.    *)
(*                                                                         *)
(* Left out: checkReversal / whenSettled (they only toggle the layout      *)
(* class 'reversed', which no other operation reads), the timestamp text   *)
(* and the end-of-life popover.                                            *)
(*                                                                         *)
(* Units: times in ms, CLS in thousandths, densities in whole percent.     *)
(***************************************************************************)
EXTENDS Integers, Sequences, FiniteSets, TLC

VARIABLES
  pc,          \* position of the constructor / init sequence
  error,       \* constructor argument: error (TRUE when loadLocalMetrics failed)
  _metrics,    \* constructor argument: the local sample, id -> [value, rating]
  options,     \* constructor argument: [preferPhoneField]
  url,         \* constructor argument: the page URL
  metrics,     \* this.metrics: id -> Metric object
  dom,         \* the popup document: status, page, device, metric elements
  calls,       \* the invocations of CrUX.load so far, <<url, formFactor>>
  fetch,       \* the promise returned by CrUX.load: idle/pending/fulfilled/rejected
  outcome,     \* the value (fieldData) or the reason the promise settled with
  rafQueue,    \* metric ids whose requestAnimationFrame callback is pending
  distWrites,  \* per metric id, the number of assignments to metric.distribution
  requests,    \* the requests the field-data client has issued, with their responses
  probe,       \* the arguments and results of a function applied on its own
  tabs         \* the tab bar: active classes, the ...InfoLoaded flags, the tab loads

vars == <<pc, error, _metrics, options, url, metrics, dom, calls, fetch,
          outcome, rafQueue, distWrites, requests, probe, tabs>>

(***************************************************************************)
(* Bounds.                                                                 *)
(***************************************************************************)
MaxEntries == 2     \* longest list of metric entries in a field-data payload

(***************************************************************************)
(* Metric kinds and the local sample.                                      *)
(***************************************************************************)
\* the five Metric objects initMetrics creates, in creation order
MetricIds == <<"lcp", "cls", "inp", "fcp", "ttfb">>

Ids == {MetricIds[i] : i \in 1..Len(MetricIds)}

\* id CrUX.getMetrics reports for a metric name it does not know
UnknownId == "undefined"

Ratings == <<"good", "needs-improvement", "poor">>

\* local samples the in-page instrumentation can hand over
LocalSamples ==
  { [lcp  |-> [value |-> 1800, rating |-> "good"],
     cls  |-> [value |-> 150,  rating |-> "needs-improvement"],
     inp  |-> [value |-> 600,  rating |-> "poor"],
     fcp  |-> [value |-> 1000, rating |-> "good"],
     ttfb |-> [value |-> 900,  rating |-> "needs-improvement"]],
    [lcp  |-> [value |-> 6000, rating |-> "poor"],
     cls  |-> [value |-> 50,   rating |-> "good"],
     inp  |-> [value |-> 100,  rating |-> "good"],
     fcp  |-> [value |-> 2000, rating |-> "needs-improvement"],
     ttfb |-> [value |-> 2500, rating |-> "poor"]] }

PageUrl       == "https://example.com/shop/item?ref=mail"
NormalizedUrl == "https://example.com/shop/item"
OriginUrl     == "https://example.com"

Undefined == "undefined"

(***************************************************************************)
(* Metric (metric.js).                                                     *)
(***************************************************************************)
\* a Metric without field data: the distribution is optional
NoDistribution == <<>>

\* new LCP({local, rating, background}) and its siblings
NewMetric(id, local, rating) ==
  [id |-> id, local |-> local, rating |-> rating, distribution |-> NoDistribution]

\* per kind: the 'good' upper bound and the 'poor' lower bound
thresholds(id) ==
  CASE id = "lcp"  -> [good |-> 2500, poor |-> 4000]
    [] id = "cls"  -> [good |-> 100,  poor |-> 250]
    [] id = "inp"  -> [good |-> 200,  poor |-> 500]
    [] id = "fcp"  -> [good |-> 1800, poor |-> 3000]
    [] id = "ttfb" -> [good |-> 800,  poor |-> 1800]

\* a rating whose 'good' bound is inclusive
getRating_Inclusive(id, value) ==
  IF value <= thresholds(id).good THEN "good"
  ELSE IF value < thresholds(id).poor THEN "needs-improvement"
  ELSE "poor"

\* the rating of a value of a kind
getRating(id, value) ==
  IF value < thresholds(id).good THEN "good"
  ELSE IF value < thresholds(id).poor THEN "needs-improvement"
  ELSE "poor"

\* the scale maximum: the 'poor' bound sits at 80% of the scale
scaleMax(id) == (thresholds(id).poor * 5) \div 4

\* metric.getRelativePosition(local): percent of the scale, clamped to 100
getRelativePosition(metric, local) ==
  LET p == (local * 100) \div scaleMax(metric.id)
  IN  IF p > 100 THEN 100 ELSE IF p < 0 THEN 0 ELSE p

\* a value beyond the scale maximum is marked overflowed
isOverflowed(metric, local) == local > scaleMax(metric.id)

\* metric.formatValue(value): unitless score for CLS, a time otherwise
formatValue(metric, value) ==
  IF metric.id = "cls"
    THEN [unit |-> "score", whole |-> value \div 1000, frac |-> value % 1000]
    ELSE IF value >= 1000
      THEN [unit |-> "s",  whole |-> value \div 1000, frac |-> value % 1000]
      ELSE [unit |-> "ms", whole |-> value, frac |-> 0]

\* metric.getAssessmentIndex(rating), 0-based as in the source
getAssessmentIndex(rating) ==
  CASE rating = "good" -> 0
    [] rating = "needs-improvement" -> 1
    [] rating = "poor" -> 2

Unavailable == [pct |-> 0, decimals |-> 0, available |-> FALSE]

\* metric.getDensity(i, decimals): the bucket's share as a percentage text
getDensity(metric, i, decimals) ==
  IF metric.distribution = NoDistribution
    THEN Unavailable
    ELSE [pct |-> metric.distribution[i + 1], decimals |-> decimals,
          available |-> TRUE]

\* metric.MIN_PCT * 100: the minimum visual width of a bucket, in percent
MIN_PCT == 1

(***************************************************************************)
(* CrUX (crux.js): the accessors popup.js applies to a field-data result.  *)
(***************************************************************************)
FormFactor == [PHONE |-> "PHONE", DESKTOP |-> "DESKTOP"]

\* String.prototype.toLowerCase on the two form factors
toLowerCase(s) ==
  CASE s = "PHONE" -> "phone"
    [] s = "DESKTOP" -> "desktop"
    [] OTHER -> s

\* CrUX.getOrigin(fieldData): the origin key of the record, if any
getOrigin(fieldData) == fieldData.origin

\* CrUX.isOriginFallback(fieldData)
isOriginFallback(fieldData) == getOrigin(fieldData) # Undefined

\* CrUX.getNormalizedUrl(fieldData)
getNormalizedUrl(fieldData) == fieldData.normalizedUrl

\* CrUX.getMetrics(fieldData): the list of {id, data}
getMetrics(fieldData) == fieldData.metrics

\* CrUX.getDistribution(data): the three bucket densities, 0 when missing
getDistribution(data) ==
  [i \in 1..Len(data) |->
     IF "density" \in DOMAIN data[i] THEN data[i].density ELSE 0]

(***************************************************************************)
(* Field-data payloads the API can answer with.                            *)
(***************************************************************************)
Bucket(d) == [start |-> 0, density |-> d]

Histograms ==
  { <<Bucket(62), Bucket(25), Bucket(13)>>,           \* sums to 100
    <<Bucket(70), Bucket(50), Bucket(20)>>,           \* sums to more than 100
    <<Bucket(0 - 10), Bucket(60), [start |-> 0]>> }   \* a negative density, and
                                                      \* a bucket without density

PayloadIds == Ids \cup {UnknownId}

Entries == [id : PayloadIds, data : Histograms]

RECURSIVE SeqsUpTo(_, _)
SeqsUpTo(S, n) ==
  IF n = 0 THEN {<<>>}
  ELSE LET shorter == SeqsUpTo(S, n - 1)
       IN  shorter \cup {Append(s, e) : s \in {t \in shorter : Len(t) = n - 1}, e \in S}

Payloads == SeqsUpTo(Entries, MaxEntries)

\* results CrUX.load can resolve with: a page-level record or an origin-level one
FieldDataResults ==
  [origin : {Undefined}, normalizedUrl : {Undefined, NormalizedUrl}, metrics : Payloads]
    \cup
  [origin : {OriginUrl}, normalizedUrl : {Undefined}, metrics : Payloads]

\* reasons CrUX.load can reject with
RejectReasons == {"FieldDataUnavailable", "FieldDataTransportError"}

(***************************************************************************)
(* The popup document.                                                     *)
(***************************************************************************)
StatusNone      == [text |-> "", formFactor |-> ""]
StatusError     == [text |-> "Web Vitals are unavailable for this page.", formFactor |-> ""]
StatusLoading   == [text |-> "Loading field data", formFactor |-> ""]
StatusLocalOnly == [text |-> "Local metrics only (field data unavailable)", formFactor |-> ""]
StatusCompared(ff) == [text |-> "Local metrics compared to field data", formFactor |-> ff]
StatusOrigin(ff)   == [text |-> "Comparing local metrics to origin-level field data instead",
                       formFactor |-> ff]

NoHovercard == [written |-> FALSE]

NoBars == <<>>

EmptyDom ==
  [status |-> StatusNone, page |-> "", device |-> {}, elements |-> <<>>]

\* setStatus(status)
setStatus(d, status) == [d EXCEPT !.status = status]

\* setPage(url)
setPage(d, u) == [d EXCEPT !.page = u]

\* setDevice(formFactor)
setDevice(d, formFactor) ==
  [d EXCEPT !.device = @ \cup {toLowerCase(formFactor)}]

\* the element of a metric in the document (document.querySelector('#id ...'))
ElementOf(d, id) ==
  d.elements[CHOOSE i \in 1..Len(d.elements) : d.elements[i].id = id]

HasElement(d, id) == \E i \in 1..Len(d.elements) : d.elements[i].id = id

UpdateElement(d, id, el) ==
  [d EXCEPT !.elements =
     [i \in 1..Len(d.elements) |-> IF d.elements[i].id = id THEN el ELSE d.elements[i]]]

\* the fieldData argument of setHovercardText when the caller omits it
NoFieldData == [omitted |-> TRUE]

\* setHovercardText that names the scope 'page' whatever the result is
setHovercardText_AlwaysPage(d, metric, fieldData, formFactor) ==
  LET base == [written |-> TRUE, abbr |-> metric.id,
               local |-> formatValue(metric, metric.local),
               assessment |-> metric.rating]
      text == IF fieldData # NoFieldData
                THEN base @@
                     [field |-> TRUE,
                      density |-> getDensity(metric, getAssessmentIndex(metric.rating), 0),
                      formFactor |-> toLowerCase(formFactor),
                      scope |-> "page"]
                ELSE base @@ [field |-> FALSE]
  IN  UpdateElement(d, metric.id, [ElementOf(d, metric.id) EXCEPT !.hovercard = text])

\* setHovercardText that always quotes the density of the first bucket
setHovercardText_FirstBucket(d, metric, fieldData, formFactor) ==
  LET base == [written |-> TRUE, abbr |-> metric.id,
               local |-> formatValue(metric, metric.local),
               assessment |-> metric.rating]
      text == IF fieldData # NoFieldData
                THEN base @@
                     [field |-> TRUE,
                      density |-> getDensity(metric, 0, 0),
                      formFactor |-> toLowerCase(formFactor),
                      scope |-> IF isOriginFallback(fieldData) THEN "origin" ELSE "page"]
                ELSE base @@ [field |-> FALSE]
  IN  UpdateElement(d, metric.id, [ElementOf(d, metric.id) EXCEPT !.hovercard = text])

\* setHovercardText(metric, fieldData, formFactor)
setHovercardText(d, metric, fieldData, formFactor) ==
  LET base == [written |-> TRUE, abbr |-> metric.id,
               local |-> formatValue(metric, metric.local),
               assessment |-> metric.rating]
      text == IF fieldData # NoFieldData
                THEN base @@
                     [field |-> TRUE,
                      density |-> getDensity(metric, getAssessmentIndex(metric.rating), 0),
                      formFactor |-> toLowerCase(formFactor),
                      scope |-> IF isOriginFallback(fieldData) THEN "origin" ELSE "page"]
                ELSE base @@ [field |-> FALSE]
  IN  UpdateElement(d, metric.id, [ElementOf(d, metric.id) EXCEPT !.hovercard = text])

\* renderMetric(metric), up to the requestAnimationFrame call
renderMetric(d, metric) ==
  [d EXCEPT !.elements =
     Append(@, [id |-> metric.id,
                marginLeft |-> getRelativePosition(metric, metric.local),
                localValue |-> formatValue(metric, metric.local),
                rating |-> metric.rating,
                bars |-> NoBars,
                hovercard |-> NoHovercard])]

\* the body of the requestAnimationFrame callback of renderMetric
rafCallback(d, metric) == setHovercardText(d, metric, NoFieldData, "")

\* initMetrics: the five Metric objects
initMetrics(sample) ==
  [id \in Ids |-> NewMetric(id, sample[id].value, sample[id].rating)]

\* renderMetrics: Object.values(this.metrics).forEach(renderMetric)
RECURSIVE renderMetrics(_, _, _)
renderMetrics(d, ms, i) ==
  IF i > Len(MetricIds) THEN d
  ELSE renderMetrics(renderMetric(d, ms[MetricIds[i]]), ms, i + 1)

\* the bars of the three ratings, written by renderFieldData
distributionBars(metric) ==
  [i \in 1..Len(Ratings) |->
     [rating |-> Ratings[i],
      text |-> getDensity(metric, i - 1, 0),
      width |-> getDensity(metric, i - 1, 2),
      minWidth |-> MIN_PCT]]

\* renderEntry that fills the bars but never stores the distribution
renderEntry_NoAttach(st, entry, fieldData, formFactor) ==
  IF entry.id \notin DOMAIN st.metrics
    THEN st
    ELSE
      LET metric == [st.metrics[entry.id] EXCEPT !.distribution = getDistribution(entry.data)]
          el     == ElementOf(st.dom, metric.id)
          d1     == UpdateElement(st.dom, metric.id,
                      [el EXCEPT !.marginLeft = getRelativePosition(metric, metric.local),
                                 !.bars = distributionBars(metric)])
          d2     == setDevice(d1, formFactor)
          d3     == setHovercardText(d2, metric, fieldData, formFactor)
      IN  [metrics    |-> st.metrics,
           dom        |-> d3,
           distWrites |-> st.distWrites]

\* renderEntry that writes the density of the first bucket over the local value
renderEntry_OverwritesLocal(st, entry, fieldData, formFactor) ==
  IF entry.id \notin DOMAIN st.metrics
    THEN st
    ELSE
      LET metric == [st.metrics[entry.id] EXCEPT !.distribution = getDistribution(entry.data)]
          el     == ElementOf(st.dom, metric.id)
          d1     == UpdateElement(st.dom, metric.id,
                      [el EXCEPT !.marginLeft = getRelativePosition(metric, metric.local),
                                 !.localValue = getDensity(metric, 0, 0),
                                 !.bars = distributionBars(metric)])
          d2     == setDevice(d1, formFactor)
          d3     == setHovercardText(d2, metric, fieldData, formFactor)
      IN  [metrics    |-> [st.metrics EXCEPT ![entry.id] = metric],
           dom        |-> d3,
           distWrites |-> [st.distWrites EXCEPT ![entry.id] = @ + 1]]

\* renderEntry that re-rates the Metric by the fullest bucket of the distribution
renderEntry_Rerates(st, entry, fieldData, formFactor) ==
  IF entry.id \notin DOMAIN st.metrics
    THEN st
    ELSE
      LET dist   == getDistribution(entry.data)
          top    == CHOOSE i \in 1..Len(dist) : \A j \in 1..Len(dist) : dist[j] <= dist[i]
          metric == [st.metrics[entry.id] EXCEPT !.distribution = dist,
                                                 !.rating = Ratings[top]]
          el     == ElementOf(st.dom, metric.id)
          d1     == UpdateElement(st.dom, metric.id,
                      [el EXCEPT !.marginLeft = getRelativePosition(metric, metric.local),
                                 !.bars = distributionBars(metric)])
          d2     == setDevice(d1, formFactor)
          d3     == setHovercardText(d2, metric, fieldData, formFactor)
      IN  [metrics    |-> [st.metrics EXCEPT ![entry.id] = metric],
           dom        |-> d3,
           distWrites |-> [st.distWrites EXCEPT ![entry.id] = @ + 1]]

\* renderEntry that places the local marker by the share of the first bucket
renderEntry_PositionByDensity(st, entry, fieldData, formFactor) ==
  IF entry.id \notin DOMAIN st.metrics
    THEN st
    ELSE
      LET metric == [st.metrics[entry.id] EXCEPT !.distribution = getDistribution(entry.data)]
          el     == ElementOf(st.dom, metric.id)
          d1     == UpdateElement(st.dom, metric.id,
                      [el EXCEPT !.marginLeft = metric.distribution[1],
                                 !.bars = distributionBars(metric)])
          d2     == setDevice(d1, formFactor)
          d3     == setHovercardText(d2, metric, fieldData, formFactor)
      IN  [metrics    |-> [st.metrics EXCEPT ![entry.id] = metric],
           dom        |-> d3,
           distWrites |-> [st.distWrites EXCEPT ![entry.id] = @ + 1]]

\* the callback renderFieldData passes to forEach, applied to one {id, data};
\* st is [metrics, dom, distWrites]
renderEntry(st, entry, fieldData, formFactor) ==
  IF entry.id \notin DOMAIN st.metrics
    THEN st   \* the API may return additional metrics that we don't support
    ELSE
      LET metric == [st.metrics[entry.id] EXCEPT !.distribution = getDistribution(entry.data)]
          el     == ElementOf(st.dom, metric.id)
          d1     == UpdateElement(st.dom, metric.id,
                      [el EXCEPT !.marginLeft = getRelativePosition(metric, metric.local),
                                 !.bars = distributionBars(metric)])
          d2     == setDevice(d1, formFactor)
          d3     == setHovercardText(d2, metric, fieldData, formFactor)
      IN  [metrics    |-> [st.metrics EXCEPT ![entry.id] = metric],
           dom        |-> d3,
           distWrites |-> [st.distWrites EXCEPT ![entry.id] = @ + 1]]

\* forEach that stops at the first entry whose id is not a Metric of the popup
RECURSIVE renderEntries_StopAtUnknown(_, _, _, _, _)
renderEntries_StopAtUnknown(st, entries, i, fieldData, formFactor) ==
  IF i > Len(entries) \/ entries[i].id \notin DOMAIN st.metrics THEN st
  ELSE renderEntries_StopAtUnknown(renderEntry(st, entries[i], fieldData, formFactor),
                                   entries, i + 1, fieldData, formFactor)

RECURSIVE renderEntries(_, _, _, _, _)
renderEntries(st, entries, i, fieldData, formFactor) ==
  IF i > Len(entries) THEN st
  ELSE renderEntries(renderEntry(st, entries[i], fieldData, formFactor),
                     entries, i + 1, fieldData, formFactor)

\* renderScope whose origin branch sets the page but forgets the status
renderScope_OriginKeepsStatus(d, fieldData, formFactor) ==
  IF isOriginFallback(fieldData)
    THEN setPage(d, getOrigin(fieldData))
    ELSE LET d1 == setStatus(d, StatusCompared(toLowerCase(formFactor)))
             normalizedUrl == getNormalizedUrl(fieldData)
         IN  IF normalizedUrl # Undefined THEN setPage(d1, normalizedUrl) ELSE d1

\* renderScope whose origin branch sets the status but leaves the page URL
renderScope_OriginKeepsPage(d, fieldData, formFactor) ==
  IF isOriginFallback(fieldData)
    THEN setStatus(d, StatusOrigin(toLowerCase(formFactor)))
    ELSE LET d1 == setStatus(d, StatusCompared(toLowerCase(formFactor)))
             normalizedUrl == getNormalizedUrl(fieldData)
         IN  IF normalizedUrl # Undefined THEN setPage(d1, normalizedUrl) ELSE d1

\* the status and page written at the top of renderFieldData
renderScope(d, fieldData, formFactor) ==
  IF isOriginFallback(fieldData)
    THEN setPage(setStatus(d, StatusOrigin(toLowerCase(formFactor))), getOrigin(fieldData))
    ELSE LET d1 == setStatus(d, StatusCompared(toLowerCase(formFactor)))
             normalizedUrl == getNormalizedUrl(fieldData)
         IN  IF normalizedUrl # Undefined THEN setPage(d1, normalizedUrl) ELSE d1

\* renderFieldData(fieldData, formFactor)
renderFieldData(st, fieldData, formFactor) ==
  renderEntries([st EXCEPT !.dom = renderScope(st.dom, fieldData, formFactor)],
                getMetrics(fieldData), 1, fieldData, formFactor)

\* the preference read the wrong way round
requestedFormFactor_Swapped(opts) ==
  IF opts.preferPhoneField THEN FormFactor.DESKTOP ELSE FormFactor.PHONE

\* the form factor initFieldData asks for
requestedFormFactor(opts) ==
  IF opts.preferPhoneField THEN FormFactor.PHONE ELSE FormFactor.DESKTOP

\* a catch callback that swallows the rejection without a status
onLoadRejected_Silent(d) == d

\* the catch callback of initFieldData
onLoadRejected(d) == setStatus(d, StatusLocalOnly)

(***************************************************************************)
(* The field-data client behind CrUX.load (crux.js): a page-level request, *)
(* then an origin-level request if the page has no record.                 *)
(***************************************************************************)
\* URL.origin of the URLs at hand: scheme and host only
originOf(u) ==
  CASE u = PageUrl       -> OriginUrl
    [] u = NormalizedUrl -> OriginUrl
    [] OTHER             -> u

\* the request for page-level data
pageRequest(u, formFactor) ==
  [level |-> "page", target |-> u, formFactor |-> formFactor, response |-> "pending"]

\* the request for origin-level data
originRequest(u, formFactor) ==
  [level |-> "origin", target |-> originOf(u), formFactor |-> formFactor,
   response |-> "pending"]

Last(q) == q[Len(q)]

\* a request is in flight
InFlight(q) == q # <<>> /\ Last(q).response = "pending"

\* the request in flight is answered with the response
answered(q, response) == [q EXCEPT ![Len(q)].response = response]

\* the records a request can be answered with
recordsFor(request) ==
  IF request.level = "page"
    THEN {r \in FieldDataResults : r.origin = Undefined}
    ELSE {r \in FieldDataResults : r.origin = request.target}

\* the responses other than a record or a timeout that end the load
failuresFor(request) ==
  IF request.level = "page" THEN {"failure"} ELSE {"not-found", "failure"}

\* a client that reports every failed load as 'no field data'
rejectReason_AlwaysUnavailable(response) == "FieldDataUnavailable"

\* the error the client surfaces for the response that ended the load
rejectReason(response) ==
  IF response = "not-found" THEN "FieldDataUnavailable" ELSE "FieldDataTransportError"

(***************************************************************************)
(* Initial state: the arguments handed to new Popup(...), nothing built.   *)
(***************************************************************************)
(***************************************************************************)
(* The tab bar (initTabs) and the tab loads.  The buttons and contents are *)
(* those of the popup page: Web Vitals, Server, DNS and SEO; the page      *)
(* starts with the Web Vitals tab active.                                  *)
(***************************************************************************)
MaxClicks == 2

TabNames == {"vitals", "server", "dns", "seo"}

LazyTabs == {"server", "dns", "seo"}

\* document.getElementById(`${targetTab}-tab`)
contentOf(targetTab) ==
  CASE targetTab = "vitals" -> "vitals-tab"
    [] targetTab = "server" -> "server-tab"
    [] targetTab = "dns"    -> "dns-tab"
    [] targetTab = "seo"    -> "seo-tab"

\* fetchWithTimeout(url, options, timeout = 8000)
timeout == 8000

\* the server tab before its first load
ServerIdle ==
  [state |-> "idle", timer |-> "none", elapsed |-> 0, fetches |-> 0,
   error |-> "", fields |-> "placeholder"]

TabLoadIdle == [state |-> "idle", fields |-> "placeholder"]

\* the popup page before any click handler is attached
NoTabs ==
  [listening |-> FALSE,
   activeButtons |-> {"vitals"},
   activeContents |-> {contentOf("vitals")},
   clicked |-> "none",
   clicks |-> [b \in TabNames |-> 0],
   serverInfoLoaded |-> FALSE,
   dnsInfoLoaded |-> FALSE,
   seoInfoLoaded |-> FALSE,
   loads |-> [k \in LazyTabs |-> 0],
   server |-> ServerIdle,
   dns |-> TabLoadIdle,
   seo |-> TabLoadIdle]

\* initTabs(): every tab button gets its click listener
initTabs(t) == [t EXCEPT !.listening = TRUE]

\* fetchWithTimeout: the abort timer is set, then the request is sent
fetchWithTimeout(s) ==
  [s EXCEPT !.state = "fetching", !.timer = "armed", !.elapsed = 0,
            !.fetches = @ + 1]

\* a loadServerInfo that forgets to raise its flag
loadServerInfo_NoFlag(t) ==
  [t EXCEPT !.loads.server = @ + 1,
            !.server = fetchWithTimeout(@)]

\* loadServerInfo(), up to the await of ServerInfo.load
loadServerInfo(t) ==
  [t EXCEPT !.serverInfoLoaded = TRUE,
            !.loads.server = @ + 1,
            !.server = fetchWithTimeout(@)]

\* loadDNSInfo(), up to the await of DNSInfo.load
loadDNSInfo(t) ==
  [t EXCEPT !.dnsInfoLoaded = TRUE,
            !.loads.dns = @ + 1,
            !.dns = [state |-> "pending", fields |-> "placeholder"]]

\* loadSEOInfo(), up to the await of SEOInfo.load
loadSEOInfo(t) ==
  [t EXCEPT !.seoInfoLoaded = TRUE,
            !.loads.seo = @ + 1,
            !.seo = [state |-> "pending", fields |-> "placeholder"]]

\* the click listener of a tab button
onTabClick(t, button) ==
  LET targetTab == button
      t1 == [t EXCEPT !.activeButtons = (@ \ TabNames) \cup {button},
                      !.activeContents =
                         (@ \ {contentOf(b) : b \in TabNames}) \cup {contentOf(targetTab)}]
      t2 == IF targetTab = "server" /\ ~t1.serverInfoLoaded THEN loadServerInfo(t1) ELSE t1
      t3 == IF targetTab = "dns" /\ ~t2.dnsInfoLoaded THEN loadDNSInfo(t2) ELSE t2
  IN  IF targetTab = "seo" /\ ~t3.seoInfoLoaded THEN loadSEOInfo(t3) ELSE t3

\* the catch block of loadServerInfo: every server field reads 'Error'
onServerInfoError(s, message) ==
  [s EXCEPT !.state = "rejected", !.error = message, !.fields = "Error"]

\* a fetchWithTimeout that leaves its timer running after the response
fetchSettled_KeepsTimer(s, response) ==
  CASE response = "ok" -> [s EXCEPT !.state = "reading"]
    [] response = "not-ok" -> onServerInfoError(s, "API error")
    [] response = "network-error" -> onServerInfoError(s, "Network error")

\* the fetch settles before the timer: the timer is cleared, and then
\* a response that is not ok throws 'API error: <status>', a network failure
\* is rethrown as 'Network error'
fetchSettled(s, response) ==
  LET c == [s EXCEPT !.timer = "cleared"]
  IN  CASE response = "ok" -> [c EXCEPT !.state = "reading"]
        [] response = "not-ok" -> onServerInfoError(c, "API error")
        [] response = "network-error" -> onServerInfoError(c, "Network error")

\* response.json() and the use of its data
bodyRead(s, body) ==
  CASE body = "success" -> [s EXCEPT !.state = "resolved", !.fields = "data"]
    [] body = "unsuccessful" -> onServerInfoError(s, "API error")
    [] body = "malformed" -> onServerInfoError(s, "SyntaxError")

\* the timer callback: controller.abort(), the pending await rejects with an
\* AbortError, which getServerInfo rethrows as 'Request timeout'
timerFired(s) ==
  onServerInfoError([s EXCEPT !.timer = "fired"], "Request timeout")

Min(a, b) == IF a <= b THEN a ELSE b

NoProbe == [fn |-> "none"]

Init ==
  /\ pc = "new"
  /\ error \in BOOLEAN
  /\ _metrics \in LocalSamples
  /\ options \in [preferPhoneField : BOOLEAN]
  /\ url = PageUrl
  /\ metrics = <<>>
  /\ dom = EmptyDom
  /\ calls = <<>>
  /\ requests = <<>>
  /\ fetch = "idle"
  /\ outcome = NoFieldData
  /\ rafQueue = <<>>
  /\ distWrites = [id \in Ids |-> 0]
  /\ probe = NoProbe
  /\ tabs = NoTabs

(***************************************************************************)
(* The constructor and the init sequence, one synchronous run.             *)
(***************************************************************************)
Constructor ==
  /\ pc = "new"
  /\ IF error
       THEN /\ dom' = setStatus(dom, StatusError)
            /\ pc' = "closed-on-error"
       ELSE /\ dom' = dom
            /\ pc' = "initTabs"
  /\ UNCHANGED <<error, _metrics, options, url, metrics, calls, requests, fetch,
                 outcome, rafQueue, distWrites, probe,
                 tabs>>

InitTabs ==
  /\ pc = "initTabs"
  /\ tabs' = initTabs(tabs)
  /\ pc' = "initStatus"
  /\ UNCHANGED <<error, _metrics, options, url, metrics, dom, calls, requests,
                 fetch, outcome, rafQueue, distWrites, probe>>

InitStatus ==
  /\ pc = "initStatus"
  /\ dom' = setStatus(dom, StatusLoading)
  /\ pc' = "initPage"
  /\ UNCHANGED <<error, _metrics, options, url, metrics, calls, requests, fetch,
                 outcome, rafQueue, distWrites, probe,
                 tabs>>

InitPage ==
  /\ pc = "initPage"
  /\ dom' = setPage(dom, url)
  /\ pc' = "initMetrics"
  /\ UNCHANGED <<error, _metrics, options, url, metrics, calls, requests, fetch,
                 outcome, rafQueue, distWrites, probe,
                 tabs>>

InitMetrics ==
  /\ pc = "initMetrics"
  /\ metrics' = initMetrics(_metrics)
  /\ dom' = renderMetrics(dom, metrics', 1)
  /\ rafQueue' = MetricIds
  /\ pc' = "initFieldData"
  /\ UNCHANGED <<error, _metrics, options, url, calls, requests, fetch, outcome,
                 distWrites, probe,
                 tabs>>

\* initFieldData calls CrUX.load, which issues the page-level request
InitFieldData ==
  /\ pc = "initFieldData"
  /\ calls' = Append(calls, <<url, requestedFormFactor(options)>>)
  /\ requests' = Append(requests, pageRequest(url, requestedFormFactor(options)))
  /\ fetch' = "pending"
  /\ pc' = "ready"
  /\ UNCHANGED <<error, _metrics, options, url, metrics, dom, outcome, rafQueue,
                 distWrites, probe,
                 tabs>>

(***************************************************************************)
(* Callbacks that run once the constructor has returned.                   *)
(***************************************************************************)
\* the browser runs the pending animation frame callbacks, in order
RECURSIVE runCallbacks(_, _, _, _)
runCallbacks(d, ms, queue, i) ==
  IF i > Len(queue) THEN d
  ELSE runCallbacks(rafCallback(d, ms[queue[i]]), ms, queue, i + 1)

AnimationFrame ==
  /\ pc = "ready"
  /\ rafQueue # <<>>
  /\ dom' = runCallbacks(dom, metrics, rafQueue, 1)
  /\ rafQueue' = <<>>
  /\ UNCHANGED <<pc, error, _metrics, options, url, metrics, calls, requests,
                 fetch, outcome, distWrites, probe,
                 tabs>>

\* the page-level request is answered 'not found': the client asks for the origin
PageNotFound ==
  /\ pc = "ready"
  /\ fetch = "pending"
  /\ InFlight(requests)
  /\ Last(requests).level = "page"
  /\ requests' = Append(answered(requests, "not-found"),
                        originRequest(url, Last(requests).formFactor))
  /\ UNCHANGED <<pc, error, _metrics, options, url, metrics, dom, calls, fetch,
                 outcome, rafQueue, distWrites, probe,
                 tabs>>

\* a then callback that still runs in a popup that has been closed
LoadFulfilled_AfterClose ==
  /\ pc \in {"ready", "closed"}
  /\ fetch = "pending"
  /\ InFlight(requests)
  /\ \E fieldData \in recordsFor(Last(requests)) :
       LET st == renderFieldData([metrics |-> metrics, dom |-> dom,
                                  distWrites |-> distWrites],
                                 fieldData, requestedFormFactor(options))
       IN  /\ outcome' = fieldData
           /\ metrics' = st.metrics
           /\ dom' = st.dom
           /\ distWrites' = st.distWrites
  /\ requests' = answered(requests, "record")
  /\ fetch' = "fulfilled"
  /\ UNCHANGED <<pc, error, _metrics, options, url, calls, rafQueue, probe,
                 tabs>>

\* a renderFieldData that raises an exception after its last entry: the catch
\* callback chained behind the then callback runs as well
LoadFulfilled_ThrowsMidway ==
  /\ pc = "ready"
  /\ fetch = "pending"
  /\ InFlight(requests)
  /\ \E fieldData \in recordsFor(Last(requests)) :
       LET st == renderFieldData([metrics |-> metrics, dom |-> dom,
                                  distWrites |-> distWrites],
                                 fieldData, requestedFormFactor(options))
       IN  /\ outcome' = fieldData
           /\ metrics' = st.metrics
           /\ dom' = onLoadRejected(st.dom)
           /\ distWrites' = st.distWrites
  /\ requests' = answered(requests, "record")
  /\ fetch' = "fulfilled"
  /\ UNCHANGED <<pc, error, _metrics, options, url, calls, rafQueue, probe,
                 tabs>>

\* CrUX.load resolves: the then callback runs renderFieldData.  The catch
\* callback is chained behind the then callback, so it would also run if
\* renderFieldData raised an exception; with every metric element rendered
\* and every histogram a list of buckets, renderFieldData raises none.
LoadFulfilled ==
  /\ pc = "ready"
  /\ fetch = "pending"
  /\ InFlight(requests)
  /\ \E fieldData \in recordsFor(Last(requests)) :
       LET st == renderFieldData([metrics |-> metrics, dom |-> dom,
                                  distWrites |-> distWrites],
                                 fieldData, requestedFormFactor(options))
       IN  /\ outcome' = fieldData
           /\ metrics' = st.metrics
           /\ dom' = st.dom
           /\ distWrites' = st.distWrites
  /\ requests' = answered(requests, "record")
  /\ fetch' = "fulfilled"
  /\ UNCHANGED <<pc, error, _metrics, options, url, calls, rafQueue, probe,
                 tabs>>

\* a catch callback that asks for the field data once more
LoadRejected_Retries ==
  /\ pc = "ready"
  /\ fetch = "pending"
  /\ InFlight(requests)
  /\ \E response \in failuresFor(Last(requests)) :
       /\ requests' = Append(answered(requests, response),
                             pageRequest(url, requestedFormFactor(options)))
       /\ outcome' = [reason |-> rejectReason(response)]
  /\ calls' = Append(calls, <<url, requestedFormFactor(options)>>)
  /\ dom' = onLoadRejected(dom)
  /\ fetch' = "pending"
  /\ UNCHANGED <<pc, error, _metrics, options, url, metrics, rafQueue,
                 distWrites, probe,
                 tabs>>

\* a catch callback that tells the user which of the two errors occurred
LoadRejected_ShowsReason ==
  /\ pc = "ready"
  /\ fetch = "pending"
  /\ InFlight(requests)
  /\ \E response \in failuresFor(Last(requests)) :
       /\ requests' = answered(requests, response)
       /\ outcome' = [reason |-> rejectReason(response)]
       /\ dom' = setStatus(dom, [text |-> rejectReason(response), formFactor |-> ""])
  /\ fetch' = "rejected"
  /\ UNCHANGED <<pc, error, _metrics, options, url, metrics, calls, rafQueue,
                 distWrites, probe,
                 tabs>>

\* CrUX.load rejects (no record for page and origin, or a transport failure):
\* the catch callback runs
LoadRejected ==
  /\ pc = "ready"
  /\ fetch = "pending"
  /\ InFlight(requests)
  /\ \E response \in failuresFor(Last(requests)) :
       /\ requests' = answered(requests, response)
       /\ outcome' = [reason |-> rejectReason(response)]
  /\ dom' = onLoadRejected(dom)
  /\ fetch' = "rejected"
  /\ UNCHANGED <<pc, error, _metrics, options, url, metrics, calls, rafQueue,
                 distWrites, probe,
                 tabs>>

\* a client without a deadline: the request is given up but CrUX.load never
\* settles
FetchTimeout_NeverSettles ==
  /\ pc = "ready"
  /\ fetch = "pending"
  /\ InFlight(requests)
  /\ requests' = answered(requests, "timeout")
  /\ UNCHANGED <<pc, error, _metrics, options, url, metrics, dom, calls, fetch,
                 outcome, rafQueue, distWrites, probe,
                 tabs>>

\* the request in flight is not answered in time: CrUX.load rejects with a
\* transport error and the catch callback runs
FetchTimeout ==
  /\ pc = "ready"
  /\ fetch = "pending"
  /\ InFlight(requests)
  /\ requests' = answered(requests, "timeout")
  /\ outcome' = [reason |-> rejectReason("timeout")]
  /\ dom' = onLoadRejected(dom)
  /\ fetch' = "rejected"
  /\ UNCHANGED <<pc, error, _metrics, options, url, metrics, calls, rafQueue,
                 distWrites, probe,
                 tabs>>

\* the user closes the popup: its document and every pending callback go away
Close ==
  /\ pc = "ready"
  /\ pc' = "closed"
  /\ UNCHANGED <<error, _metrics, options, url, metrics, dom, calls, requests,
                 fetch, outcome, rafQueue, distWrites, probe,
                 tabs>>

\* the answer to a request arrives after the popup was closed: nothing is
\* left to receive it
LateResponse ==
  /\ pc = "closed"
  /\ InFlight(requests)
  /\ \E response \in {"record", "not-found", "failure", "timeout"} :
       requests' = answered(requests, response)
  /\ UNCHANGED <<pc, error, _metrics, options, url, metrics, dom, calls, fetch,
                 outcome, rafQueue, distWrites, probe,
                 tabs>>

Next ==
  \/ Constructor
  \/ InitTabs
  \/ InitStatus
  \/ InitPage
  \/ InitMetrics
  \/ InitFieldData
  \/ AnimationFrame
  \/ PageNotFound
  \/ LoadFulfilled
  \/ LoadRejected
  \/ FetchTimeout
  \/ Close
  \/ LateResponse

Spec == Init /\ [][Next]_vars

\* the init sequence runs to its end and the timeout of a request fires
LiveSpec ==
  /\ Init
  /\ [][Next]_vars
  /\ WF_vars(Constructor \/ InitTabs \/ InitStatus \/ InitPage \/ InitMetrics
               \/ InitFieldData)
  /\ WF_vars(FetchTimeout)

(***************************************************************************)
(* The functions of a Metric applied on their own: a kind, two values and  *)
(* a histogram are drawn, then rated and rendered, or placed on the scale. *)
(***************************************************************************)
\* values around the bounds of a kind and around its scale maximum
ProbeValues(id) ==
  {0, thresholds(id).good - 1, thresholds(id).good,
   thresholds(id).poor - 1, thresholds(id).poor,
   scaleMax(id) - 1, scaleMax(id), scaleMax(id) + 1, 2 * scaleMax(id)}

ProbeInputs ==
  UNION {[fn : {"input"}, kind : {id}, v : ProbeValues(id), w : ProbeValues(id),
          data : Histograms] : id \in Ids}

ProbeInit ==
  /\ pc = "new"
  /\ error = FALSE
  /\ _metrics = CHOOSE sample \in LocalSamples : TRUE
  /\ options = [preferPhoneField |-> FALSE]
  /\ url = PageUrl
  /\ metrics = <<>>
  /\ dom = EmptyDom
  /\ calls = <<>>
  /\ requests = <<>>
  /\ fetch = "idle"
  /\ outcome = NoFieldData
  /\ rafQueue = <<>>
  /\ distWrites = [id \in Ids |-> 0]
  /\ probe \in ProbeInputs
  /\ tabs = NoTabs

popupVars == <<pc, error, _metrics, options, url, metrics, dom, calls, fetch,
               outcome, rafQueue, distWrites, requests, tabs>>

\* the two values are rated, and a Metric made of the first is rendered
RateSample ==
  /\ probe.fn = "input"
  /\ LET m == NewMetric(probe.kind, probe.v, getRating(probe.kind, probe.v))
     IN  probe' = [fn |-> "rated", kind |-> probe.kind, v |-> probe.v, w |-> probe.w,
                   ratingV |-> getRating(probe.kind, probe.v),
                   ratingW |-> getRating(probe.kind, probe.w),
                   rendered |-> ElementOf(renderMetric(EmptyDom, m), probe.kind).rating]
  /\ UNCHANGED popupVars

\* the two values are placed on the scale, and a Metric made of the first is
\* rendered and then given the distribution of the histogram
PlaceMarker ==
  /\ probe.fn = "input"
  /\ LET m  == NewMetric(probe.kind, probe.v, getRating(probe.kind, probe.v))
         d0 == renderMetric(EmptyDom, m)
         fd == [origin |-> Undefined, normalizedUrl |-> Undefined,
                metrics |-> <<[id |-> probe.kind, data |-> probe.data]>>]
         st == renderFieldData([metrics |-> (probe.kind :> m), dom |-> d0,
                                distWrites |-> (probe.kind :> 0)],
                               fd, FormFactor.DESKTOP)
     IN  probe' = [fn |-> "placed", kind |-> probe.kind, v |-> probe.v, w |-> probe.w,
                   posV |-> getRelativePosition(m, probe.v),
                   posW |-> getRelativePosition(m, probe.w),
                   overflowedV |-> isOverflowed(m, probe.v),
                   before |-> ElementOf(d0, probe.kind).marginLeft,
                   after |-> ElementOf(st.dom, probe.kind).marginLeft,
                   attached |-> st.metrics[probe.kind].distribution]
  /\ UNCHANGED popupVars

ProbeNext == RateSample \/ PlaceMarker

ProbeSpec == ProbeInit /\ [][ProbeNext]_vars

(***************************************************************************)
(* The tab bar in use: the constructor runs, then the user clicks tab      *)
(* buttons while the tab loads proceed.                                    *)
(***************************************************************************)
fieldVars == <<error, _metrics, options, url, metrics, dom, calls, fetch,
               outcome, rafQueue, distWrites, requests, probe>>

TabInit ==
  /\ pc = "new"
  /\ error \in BOOLEAN
  /\ _metrics = CHOOSE sample \in LocalSamples : TRUE
  /\ options = [preferPhoneField |-> FALSE]
  /\ url = PageUrl
  /\ metrics = <<>>
  /\ dom = EmptyDom
  /\ calls = <<>>
  /\ requests = <<>>
  /\ fetch = "idle"
  /\ outcome = NoFieldData
  /\ rafQueue = <<>>
  /\ distWrites = [id \in Ids |-> 0]
  /\ probe = NoProbe
  /\ tabs = NoTabs

\* the constructor has returned and the popup page is open
PageOpen == pc \in {"ready", "closed-on-error"}

\* the user clicks a tab button; the listener runs if initTabs attached one
ClickTab ==
  /\ PageOpen
  /\ \E button \in TabNames :
       tabs' = [(IF tabs.listening THEN onTabClick(tabs, button) ELSE tabs)
                  EXCEPT !.clicked = button,
                         !.clicks[button] = Min(@ + 1, MaxClicks)]
  /\ UNCHANGED <<pc, fieldVars>>

\* time passes while the server-info request or its body is outstanding; a
\* request still in flight at the deadline is aborted by the timer first
Tick ==
  /\ PageOpen
  /\ \/ tabs.server.state = "fetching" /\ tabs.server.elapsed < timeout
     \/ tabs.server.state = "reading" /\ tabs.server.elapsed <= timeout
  /\ tabs' = [tabs EXCEPT !.server.elapsed = @ + timeout \div 2]
  /\ UNCHANGED <<pc, fieldVars>>

\* the fetch of fetchWithTimeout settles within the timeout
ServerFetchSettles ==
  /\ PageOpen
  /\ tabs.server.state = "fetching"
  /\ tabs.server.elapsed < timeout
  /\ \E response \in {"ok", "not-ok", "network-error"} :
       tabs' = [tabs EXCEPT !.server = fetchSettled(@, response)]
  /\ UNCHANGED <<pc, fieldVars>>

\* the body of an ok response has been read
ServerBodyRead ==
  /\ PageOpen
  /\ tabs.server.state = "reading"
  /\ \E body \in {"success", "unsuccessful", "malformed"} :
       tabs' = [tabs EXCEPT !.server = bodyRead(@, body)]
  /\ UNCHANGED <<pc, fieldVars>>

\* the abort timer of fetchWithTimeout expires
ServerTimerFires ==
  /\ PageOpen
  /\ tabs.server.timer = "armed"
  /\ tabs.server.elapsed >= timeout
  /\ tabs.server.state \in {"fetching", "reading"}
  /\ tabs' = [tabs EXCEPT !.server = timerFired(@)]
  /\ UNCHANGED <<pc, fieldVars>>

\* DNSInfo.load settles: the fields are filled, or the catch block of
\* loadDNSInfo sets them to 'Error'
DnsLoadSettles ==
  /\ PageOpen
  /\ tabs.dns.state = "pending"
  /\ \E result \in {[state |-> "resolved", fields |-> "data"],
                    [state |-> "rejected", fields |-> "Error"]} :
       tabs' = [tabs EXCEPT !.dns = result]
  /\ UNCHANGED <<pc, fieldVars>>

\* SEOInfo.load settles
SeoLoadSettles ==
  /\ PageOpen
  /\ tabs.seo.state = "pending"
  /\ \E result \in {[state |-> "resolved", fields |-> "data"],
                    [state |-> "rejected", fields |-> "placeholder"]} :
       tabs' = [tabs EXCEPT !.seo = result]
  /\ UNCHANGED <<pc, fieldVars>>

TabNext ==
  \/ Constructor
  \/ InitTabs
  \/ InitStatus
  \/ InitPage
  \/ InitMetrics
  \/ InitFieldData
  \/ ClickTab
  \/ Tick
  \/ ServerFetchSettles
  \/ ServerBodyRead
  \/ ServerTimerFires
  \/ DnsLoadSettles
  \/ SeoLoadSettles

TabSpec == TabInit /\ [][TabNext]_vars

(***************************************************************************)
(* The page analyses of the SEO and accessibility tabs (seo-info.js,       *)
(* a11y-info.js), applied on their own to drawn page data.                 *)
(***************************************************************************)
MaxDeprecated == 4   \* most deprecated tags in a drawn page

MathMax(a, b) == IF a >= b THEN a ELSE b

\* Math.round of the quotient p / q of two naturals, q > 0
roundDiv(p, q) == (2 * p + q) \div (2 * q)

\* the flags of extractSEOData that calculateSEOScore reads as truthy / falsy
SeoFlags == {"canonical", "viewport", "language", "charset", "ogTitle",
             "ogDescription", "ogImage", "ogType", "hasSchema", "hasFavicon"}

\* the fields of loadExternalMetrics that calculateSEOScore reads
SecurityProfiles ==
  {[httpsEnabled |-> "Checking...", hsts |-> "Checking...",
    contentSecurityPolicy |-> "Checking..."],
   [httpsEnabled |-> "Yes", hsts |-> "Not configured",
    contentSecurityPolicy |-> "Configured"],
   [httpsEnabled |-> "Yes", hsts |-> "Enabled",
    contentSecurityPolicy |-> "Configured"]}

\* pages as extractSEOData reports them (lengths for the two texts, the
\* number of tags for the list of deprecated tags)
SeoPages ==
  [titleLength : {0, 29, 45},
   descriptionLength : {0, 140, 161},
   h1Count : {0, 1, 2},
   images : {<<0, 0>>, <<3, 3>>, <<16, 1>>, <<16, 15>>},
   flags : {{}, {"ogTitle"}, SeoFlags},
   content : {[linksInternal |-> 0, robots |-> "noindex, nofollow", wordCount |-> 100],
              [linksInternal |-> 5, robots |-> "index, follow", wordCount |-> 101],
              [linksInternal |-> 5, robots |-> "", wordCount |-> 301]},
   deprecatedTags : 0..MaxDeprecated]

\* a penalty of 2 points per deprecated tag, without the cap
deprecatedPenalty_Uncapped(data) ==
  IF data.deprecatedTags > 0 THEN data.deprecatedTags * 2 ELSE 0

\* Deprecated Tags Penalty (-2 points per tag, max -6)
deprecatedPenalty(data) ==
  IF data.deprecatedTags > 0 THEN Min(data.deprecatedTags * 2, 6) ELSE 0

\* the 3 + 7 or 3 + 3 points of a title or description of the given length
lengthPoints(length, low, high) ==
  IF length > 0
    THEN 3 + (IF length >= low /\ length <= high THEN 7 ELSE 3)
    ELSE 0

calculateSEOScore(data, externalMetrics) ==
  LET maxScore == 100
      flag(f) == f \in data.flags
      imagesCount == data.images[1]
      imagesWithoutAlt == data.images[2]
      title == lengthPoints(data.titleLength, 30, 60)
      description == lengthPoints(data.descriptionLength, 120, 160)
      h1 == IF data.h1Count = 1 THEN 8 ELSE IF data.h1Count > 0 THEN 4 ELSE 0
      alt == IF imagesCount > 0
               THEN roundDiv((imagesCount - imagesWithoutAlt) * 8, imagesCount)
               ELSE 8
      meta == (IF flag("canonical") THEN 4 ELSE 0) + (IF flag("viewport") THEN 4 ELSE 0)
              + (IF flag("language") THEN 4 ELSE 0) + (IF flag("charset") THEN 4 ELSE 0)
      ogScore == (IF flag("ogTitle") THEN 2 ELSE 0) + (IF flag("ogDescription") THEN 2 ELSE 0)
                 + (IF flag("ogImage") THEN 2 ELSE 0) + (IF flag("ogType") THEN 2 ELSE 0)
      schema == IF flag("hasSchema") THEN 8 ELSE 0
      links == IF data.content.linksInternal > 0 THEN 4 ELSE 0
      robots == IF data.content.robots = "noindex, nofollow" THEN 0 ELSE 4
      words == IF data.content.wordCount > 300 THEN 4
               ELSE IF data.content.wordCount > 100 THEN 2 ELSE 0
      favicon == IF flag("hasFavicon") THEN 2 ELSE 0
      security == (IF externalMetrics.httpsEnabled = "Yes" THEN 6 ELSE 0)
                  + (IF externalMetrics.hsts = "Enabled" THEN 3 ELSE 0)
                  + (IF externalMetrics.contentSecurityPolicy = "Configured" THEN 3 ELSE 0)
      score == title + description + h1 + alt + meta + ogScore + schema + links
               + robots + words + favicon - deprecatedPenalty(data) + security
  IN  MathMax(0, Min(score, maxScore))

\* what extractA11yData finds on a page: the counts behind each check and
\* the heading levels in document order
A11yPages ==
  [imagesWithoutAlt : {0, 2}, emptyLinks : {0, 1}, genericLinks : {0, 3},
   emptyButtons : {0, 1}, missingLabels : {0, 2},
   levels : {<<>>, <<1, 2>>, <<2, 3>>, <<1, 3>>, <<2, 4>>},
   main : BOOLEAN, badTabindex : {0, 1}]

RECURSIVE skippedLevels(_, _)
skippedLevels(levels, i) ==
  IF i >= Len(levels) THEN 0
  ELSE (IF levels[i + 1] > levels[i] + 1 THEN 1 ELSE 0) + skippedLevels(levels, i + 1)

\* the severities of the issues pushed, in the order of the checks
a11yIssues(page) ==
  LET when(c, severity) == IF c THEN <<severity>> ELSE <<>>
      structure ==
        IF Len(page.levels) = 0 THEN <<"warning">>
        ELSE when(page.levels[1] # 1, "warning")
             \o when(skippedLevels(page.levels, 1) > 0, "warning")
  IN  when(page.imagesWithoutAlt > 0, "critical")
      \o when(page.emptyLinks > 0, "critical")
      \o when(page.genericLinks > 0, "warning")
      \o when(page.emptyButtons > 0, "critical")
      \o when(page.missingLabels > 0, "critical")
      \o structure
      \o when(~page.main, "critical")
      \o when(page.badTabindex > 0, "warning")

\* issues.forEach: 10 off for a critical issue, 5 off for a warning
RECURSIVE deduct(_, _, _)
deduct(score, issues, i) ==
  IF i > Len(issues) THEN score
  ELSE deduct(score - (IF issues[i] = "critical" THEN 10 ELSE 0)
                    - (IF issues[i] = "warning" THEN 5 ELSE 0),
              issues, i + 1)

a11yScore(issues) == MathMax(0, deduct(100, issues, 1))

\* a level estimate that grants AAA from 90 points on
complianceLevel_From90(score) ==
  IF score >= 90 THEN "AAA (Potential)"
  ELSE IF score >= 70 THEN "A (Potential)"
  ELSE "Fail"

\* Estimate WCAG Level based on score
complianceLevel(score) ==
  IF score = 100 THEN "AAA (Potential)"
  ELSE IF score >= 90 THEN "AA (Potential)"
  ELSE IF score >= 70 THEN "A (Potential)"
  ELSE "Fail"

extractA11yData(page) ==
  LET issues == a11yIssues(page)
      score == a11yScore(issues)
  IN  [score |-> score, complianceLevel |-> complianceLevel(score), issues |-> issues]

(***************************************************************************)
(* loadExternalMetrics (seo-info.js): three sources behind                 *)
(* Promise.allSettled.  Field values are records: a text, a score out of   *)
(* 100 (`${score}/100`) or a plain number.                                 *)
(***************************************************************************)
Text(t) == [text |-> t]

OutOf100(n) == [text |-> "/100", score |-> n]

Number(n) == [number |-> n]

\* the value null that a source returns after catching its own error
Null == [null |-> TRUE]

\* hostnames with the properties the domain scores read; NoDomain is a
\* domain argument that is not a string
NoDomain == [name |-> Undefined]

Domains ==
  {[name |-> "www.example.com", tld |-> ".com", mainLength |-> 7, www |-> TRUE,
    common |-> FALSE, highAuth |-> FALSE, plain |-> TRUE],
   [name |-> "github.io", tld |-> ".io", mainLength |-> 6, www |-> FALSE,
    common |-> TRUE, highAuth |-> TRUE, plain |-> TRUE],
   [name |-> "my-bookshop24.info", tld |-> ".info", mainLength |-> 13, www |-> FALSE,
    common |-> FALSE, highAuth |-> FALSE, plain |-> FALSE],
   [name |-> "nasa.gov", tld |-> ".gov", mainLength |-> 4, www |-> FALSE,
    common |-> FALSE, highAuth |-> FALSE, plain |-> TRUE]}

isString(domain) == domain # NoDomain

\* the URL argument: whether new URL(url) succeeds, and its protocol
Urls == [valid : BOOLEAN, protocol : {"https:", "http:"}]

\* what the Observatory requests come to
ObservatoryOutcomes ==
  {[kind |-> "scan-failed"], [kind |-> "results-failed"], [kind |-> "network-error"]}
  \cup [kind : {"data"}, tests_passed : {0, 9}, hsts : BOOLEAN, csp : BOOLEAN,
        xfo : {TRUE}]

\* the points of the TLD in the four score tables
tldPoints(table, tld) ==
  CASE table = "authority-score" ->
         (CASE tld = ".gov" -> 20 [] tld = ".edu" -> 18 [] tld = ".org" -> 12
            [] tld = ".com" -> 10 [] tld = ".net" -> 8 [] tld = ".io" -> 8
            [] tld = ".co" -> 6 [] tld = ".info" -> 4 [] tld = ".biz" -> 3
            [] OTHER -> 0)
    [] table = "rating-score" ->
         (CASE tld = ".gov" -> 25 [] tld = ".edu" -> 22 [] tld = ".org" -> 15
            [] tld = ".com" -> 12 [] tld = ".net" -> 10 [] tld = ".io" -> 10
            [] tld = ".co" -> 8 [] tld = ".info" -> 5 [] tld = ".biz" -> 4
            [] OTHER -> 0)
    [] table = "authority" ->
         (CASE tld = ".gov" -> 15 [] tld = ".edu" -> 12 [] tld = ".org" -> 8
            [] tld = ".com" -> 5 [] tld = ".net" -> 5 [] OTHER -> 0)
    [] table = "rating" ->
         (CASE tld = ".gov" -> 20 [] tld = ".edu" -> 16 [] tld = ".org" -> 10
            [] tld = ".com" -> 8 [] tld = ".net" -> 6 [] OTHER -> 0)

calculateDomainAuthorityScore(domain, protocol) ==
  LET length == domain.mainLength
      score == 40
               + (IF protocol = "https:" THEN 15 ELSE 0)
               + tldPoints("authority-score", domain.tld)
               + (IF length <= 4 THEN 10 ELSE IF length <= 6 THEN 8
                  ELSE IF length <= 8 THEN 6 ELSE IF length <= 10 THEN 4
                  ELSE IF length <= 12 THEN 2 ELSE 0)
               + (IF domain.www THEN 5 ELSE 0)
               + (IF domain.common THEN 10 ELSE 0)
  IN  Min(score, 100)

calculateDomainRatingScore(domain, protocol) ==
  LET length == domain.mainLength
      score == 35
               + (IF protocol = "https:" THEN 20 ELSE 0)
               + tldPoints("rating-score", domain.tld)
               + (IF length <= 3 THEN 15 ELSE IF length <= 5 THEN 12
                  ELSE IF length <= 7 THEN 9 ELSE IF length <= 9 THEN 6
                  ELSE IF length <= 12 THEN 3 ELSE 0)
               + (IF domain.plain THEN 5 ELSE 0)
               + (IF domain.highAuth THEN 15 ELSE 0)
  IN  Min(score, 100)

\* avgScore = (da + dr) / 2, compared without the division
estimateBacklinks(domain, da, dr) ==
  LET sum == da + dr
  IN  IF sum >= 160 THEN "10K+ (estimated)"
      ELSE IF sum >= 140 THEN "5K-10K (estimated)"
      ELSE IF sum >= 120 THEN "1K-5K (estimated)"
      ELSE IF sum >= 100 THEN "500-1K (estimated)"
      ELSE IF sum >= 80 THEN "100-500 (estimated)"
      ELSE IF sum >= 60 THEN "50-100 (estimated)"
      ELSE "<50 (estimated)"

estimateDomainAge(domain) ==
  IF domain.mainLength <= 4 THEN "10+ years (estimated)"
  ELSE IF domain.mainLength <= 6 THEN "5-10 years (estimated)"
  ELSE IF domain.mainLength <= 8 THEN "3-5 years (estimated)"
  ELSE IF domain.mainLength <= 10 THEN "1-3 years (estimated)"
  ELSE "<1 year (estimated)"

\* the legacy estimates used when the domain external are still placeholders
calculateDomainAuthority(external, domain) ==
  LET score == 50
               + (IF external.httpsEnabled = Text("Yes") THEN 10 ELSE 0)
               + (IF external.hsts = Text("Enabled") THEN 5 ELSE 0)
               + (IF external.contentSecurityPolicy = Text("Configured") THEN 5 ELSE 0)
               + (IF external.xFrameOptions = Text("Configured") THEN 5 ELSE 0)
               + tldPoints("authority", domain.tld)
               + (IF domain.mainLength <= 6 THEN 5
                  ELSE IF domain.mainLength <= 10 THEN 3 ELSE 0)
  IN  OutOf100(Min(score, 100))

calculateDomainRating(external, domain) ==
  LET score == 45
               + (IF external.httpsEnabled = Text("Yes") THEN 12 ELSE 0)
               + (IF external.hsts = Text("Enabled") THEN 6 ELSE 0)
               + (IF external.contentSecurityPolicy = Text("Configured") THEN 4 ELSE 0)
               + (IF external.xFrameOptions = Text("Configured") THEN 3 ELSE 0)
               + tldPoints("rating", domain.tld)
               + (IF domain.mainLength <= 5 THEN 10
                  ELSE IF domain.mainLength <= 8 THEN 6
                  ELSE IF domain.mainLength <= 12 THEN 3 ELSE 0)
  IN  Number(Min(score, 100))

\* both requests must be ok; any error is caught and null is returned
loadMozillaObservatory(observatory) ==
  IF observatory.kind = "data"
    THEN [https |-> observatory.tests_passed >= 1, hsts |-> observatory.hsts,
          csp |-> observatory.csp, xfo |-> observatory.xfo]
    ELSE Null

\* new URL(url) or a score of a domain that is no string throws, and null
\* is returned
loadDomainMetrics(domain, u) ==
  IF ~u.valid \/ ~isString(domain) THEN Null
  ELSE LET da == calculateDomainAuthorityScore(domain, u.protocol)
           dr == calculateDomainRatingScore(domain, u.protocol)
       IN  [domainAuthority |-> OutOf100(da),
            domainRating |-> OutOf100(dr),
            backlinksEstimate |-> Text(estimateBacklinks(domain, da, dr)),
            domainAge |-> Text(estimateDomainAge(domain)),
            performanceScore |-> Text("See Web Vitals tab")]

extractSecurityFromPage(u) ==
  IF ~u.valid THEN Null ELSE [https |-> u.protocol = "https:"]

\* the metrics object before any source has answered
Placeholders ==
  [httpsEnabled |-> Text("Checking..."),
   hsts |-> Text("Checking..."),
   contentSecurityPolicy |-> Text("Checking..."),
   xFrameOptions |-> Text("Checking..."),
   domainAuthority |-> Text("Calculating..."),
   domainRating |-> Text("Calculating..."),
   performanceScore |-> Text("Loading..."),
   backlinksEstimate |-> Text("Calculating..."),
   domainAge |-> Text("Estimating...")]

\* the results of the three sources folded into the metrics object, the
\* legacy estimates, and the catch block around all of it
foldSources(external, results, domain) ==
  LET m1 == IF results[1] # Null
              THEN [external EXCEPT
                      !.httpsEnabled = Text(IF results[1].https THEN "Yes" ELSE "No"),
                      !.hsts = Text(IF results[1].hsts THEN "Enabled" ELSE "Not configured"),
                      !.contentSecurityPolicy =
                         Text(IF results[1].csp THEN "Configured" ELSE "Not configured"),
                      !.xFrameOptions =
                         Text(IF results[1].xfo THEN "Configured" ELSE "Not configured")]
              ELSE external
      m2 == IF results[2] # Null
              THEN [m1 EXCEPT !.domainAuthority = results[2].domainAuthority,
                              !.domainRating = results[2].domainRating,
                              !.backlinksEstimate = results[2].backlinksEstimate,
                              !.domainAge = results[2].domainAge,
                              !.performanceScore = results[2].performanceScore]
              ELSE m1
      m3 == IF results[3] # Null /\ m2.httpsEnabled = Text("Checking...")
              THEN [m2 EXCEPT !.httpsEnabled = Text(IF results[3].https THEN "Yes" ELSE "No")]
              ELSE m2
      estimated == m3.domainAuthority = Text("Calculating...")
                   \/ m3.domainRating = Text("Calculating...")
  IN  IF estimated /\ ~isString(domain)
        THEN [m3 EXCEPT !.domainAuthority = Text("Unavailable"),
                        !.domainRating = Text("Unavailable")]
        ELSE [m3 EXCEPT
                !.domainAuthority = IF @ = Text("Calculating...")
                                      THEN calculateDomainAuthority(m3, domain) ELSE @,
                !.domainRating = IF @ = Text("Calculating...")
                                   THEN calculateDomainRating(m3, domain) ELSE @]

\* a loadExternalMetrics that gives up as soon as one source has no result
loadExternalMetrics_FailFast(u, domain, observatory) ==
  LET results == <<loadMozillaObservatory(observatory),
                   loadDomainMetrics(domain, u),
                   extractSecurityFromPage(u)>>
  IN  [settled |-> "resolved",
       value |-> IF \E i \in 1..3 : results[i] = Null
                   THEN [Placeholders EXCEPT !.domainAuthority = Text("Unavailable"),
                                             !.domainRating = Text("Unavailable")]
                   ELSE foldSources(Placeholders, results, domain)]

\* loadExternalMetrics(url, domain): its promise and the value it settles with
loadExternalMetrics(u, domain, observatory) ==
  LET results == <<loadMozillaObservatory(observatory),
                   loadDomainMetrics(domain, u),
                   extractSecurityFromPage(u)>>
  IN  [settled |-> "resolved",
       value |-> foldSources(Placeholders, results, domain)]

(***************************************************************************)
(* DNSInfo (dns-info.js): seven queries behind Promise.all.                *)
(***************************************************************************)
MaxFailedQueries == 1   \* most queries that fail in one drawn load

RecordTypes == {"A", "AAAA", "CNAME", "MX", "NS", "TXT", "SOA"}

\* a record of an Answer: its data with the leading number (0 if none) and
\* whether the text is wrapped in double quotes
OneRecord == <<[priority |-> 10, text |-> "alpha", quoted |-> TRUE]>>

TwoRecords == <<[priority |-> 20, text |-> "beta", quoted |-> TRUE],
                [priority |-> 10, text |-> "alpha", quoted |-> FALSE]>>

QueryFailures == {"timeout", "not-ok", "network-error", "no-answer"}

QueryOutcomes ==
  [kind : QueryFailures] \cup [kind : {"answer"}, records : {OneRecord, TwoRecords}]

\* a queryDNS that lets the error of its request through
queryDNS_NoCatch(queried) ==
  IF queried.kind = "answer" THEN [answer |-> queried.records]
  ELSE IF queried.kind \in {"timeout", "network-error"} THEN [thrown |-> queried.kind]
  ELSE Null

\* queryDNS(recordType): the Answer, or null after any failure
queryDNS(queried) ==
  IF queried.kind = "answer" THEN [answer |-> queried.records] ELSE Null

\* Array.prototype.sort by the leading number, stable
RECURSIVE insertByPriority(_, _)
insertByPriority(sorted, r) ==
  IF sorted = <<>> THEN <<r>>
  ELSE IF sorted[Len(sorted)].priority <= r.priority THEN Append(sorted, r)
  ELSE Append(insertByPriority(SubSeq(sorted, 1, Len(sorted) - 1), r),
              sorted[Len(sorted)])

RECURSIVE sortByPriority(_, _)
sortByPriority(records, i) ==
  IF i = 0 THEN <<>>
  ELSE insertByPriority(sortByPriority(records, i - 1), records[i])

NotAvailable == [sep |-> "", items |-> <<>>, text |-> "N/A"]

formatRecords(result, format) ==
  IF result = Null \/ result.answer = <<>> THEN NotAvailable
  ELSE LET records == result.answer IN
       CASE format = "simple" ->
              [sep |-> ", ", items |-> records, text |-> "joined"]
         [] format = "mx" ->
              [sep |-> "\n", items |-> sortByPriority(records, Len(records)),
               text |-> "joined"]
         [] format = "txt" ->
              [sep |-> "\n",
               items |-> [i \in 1..Len(records) |-> [records[i] EXCEPT !.quoted = FALSE]],
               text |-> "joined"]
         [] OTHER ->
              [sep |-> "\n", items |-> records, text |-> "joined"]

\* getDNSInfo(): Promise.all of the seven queries, then the eight fields
getDNSInfo(hostname, queried) ==
  LET answers == [t \in RecordTypes |-> queryDNS(queried[t])]
      thrown(a) == DOMAIN a = {"thrown"}
  IN  IF \E t \in RecordTypes : thrown(answers[t])
        THEN [settled |-> "rejected", value |-> Null]
        ELSE [settled |-> "resolved",
              value |-> [domain |-> hostname,
                         aRecord |-> formatRecords(answers["A"], "simple"),
                         aaaaRecord |-> formatRecords(answers["AAAA"], "simple"),
                         cname |-> formatRecords(answers["CNAME"], "simple"),
                         mx |-> formatRecords(answers["MX"], "mx"),
                         ns |-> formatRecords(answers["NS"], "list"),
                         txt |-> formatRecords(answers["TXT"], "txt"),
                         soa |-> formatRecords(answers["SOA"], "simple")]]

\* the field of the result that shows a record type
fieldOf(t) ==
  CASE t = "A" -> "aRecord" [] t = "AAAA" -> "aaaaRecord" [] t = "CNAME" -> "cname"
    [] t = "MX" -> "mx" [] t = "NS" -> "ns" [] t = "TXT" -> "txt" [] t = "SOA" -> "soa"

DnsLoads ==
  {q \in [RecordTypes -> QueryOutcomes] :
     Cardinality({t \in RecordTypes : q[t].kind # "answer"}) <= MaxFailedQueries}

InfoInputs ==
  [fn : {"seo-input"}, data : SeoPages, externalMetrics : SecurityProfiles]
  \cup [fn : {"a11y-input"}, page : A11yPages]
  \cup [fn : {"external-input"}, u : Urls, domain : Domains \cup {NoDomain},
        observatory : ObservatoryOutcomes]
  \cup [fn : {"dns-input"}, hostname : {"www.example.com"}, queried : DnsLoads]

InfoInit ==
  /\ pc = "new"
  /\ error = FALSE
  /\ _metrics = CHOOSE sample \in LocalSamples : TRUE
  /\ options = [preferPhoneField |-> FALSE]
  /\ url = PageUrl
  /\ metrics = <<>>
  /\ dom = EmptyDom
  /\ calls = <<>>
  /\ requests = <<>>
  /\ fetch = "idle"
  /\ outcome = NoFieldData
  /\ rafQueue = <<>>
  /\ distWrites = [id \in Ids |-> 0]
  /\ tabs = NoTabs
  /\ probe \in InfoInputs

\* the SEO score of the page, and of the same page without its deprecated tags
ScoreSEO ==
  /\ probe.fn = "seo-input"
  /\ probe' = [fn |-> "seo", data |-> probe.data,
               externalMetrics |-> probe.externalMetrics,
               seoScore |-> calculateSEOScore(probe.data, probe.externalMetrics),
               cleanScore |-> calculateSEOScore([probe.data EXCEPT !.deprecatedTags = 0],
                                                probe.externalMetrics)]
  /\ UNCHANGED popupVars

\* the accessibility analysis of the page
AnalyseA11y ==
  /\ probe.fn = "a11y-input"
  /\ probe' = [fn |-> "a11y", page |-> probe.page, result |-> extractA11yData(probe.page)]
  /\ UNCHANGED popupVars

\* loadExternalMetrics is awaited
LoadExternal ==
  /\ probe.fn = "external-input"
  /\ probe' = [fn |-> "external", u |-> probe.u, domain |-> probe.domain,
               observatory |-> probe.observatory,
               promise |-> loadExternalMetrics(probe.u, probe.domain, probe.observatory)]
  /\ UNCHANGED popupVars

\* DNSInfo.load is awaited
LoadDns ==
  /\ probe.fn = "dns-input"
  /\ probe' = [fn |-> "dns", hostname |-> probe.hostname, queried |-> probe.queried,
               promise |-> getDNSInfo(probe.hostname, probe.queried)]
  /\ UNCHANGED popupVars

InfoNext == ScoreSEO \/ AnalyseA11y \/ LoadExternal \/ LoadDns

InfoSpec == InfoInit /\ [][InfoNext]_vars

(***************************************************************************)
(* Helpers of the properties.                                              *)
(***************************************************************************)
Constructed == pc \in {"ready", "closed"}

IsReconciledStatus(st) ==
  st.text \in {StatusCompared("").text, StatusOrigin("").text}

IsTerminalStatus(st) == IsReconciledStatus(st) \/ st = StatusLocalOnly

\* the form factor the persisted preference asks for
PreferredFormFactor == IF options.preferPhoneField THEN "PHONE" ELSE "DESKTOP"

\* the positions of the entries of a payload that name the metric id
EntriesFor(payload, id) == {i \in 1..Len(payload) : payload[i].id = id}

Max(S) == CHOOSE x \in S : \A y \in S : y <= x

Sum3(t) == t[1] + t[2] + t[3]

\* three non-negative fractions that sum to at most 1.0
ValidDistribution(t) ==
  /\ Len(t) = 3
  /\ \A i \in 1..3 : t[i] >= 0
  /\ Sum3(t) <= 100

\* the local part of a metric element is as renderMetric wrote it from the sample
LocalRenderingIntact(id) ==
  /\ HasElement(dom, id)
  /\ LET el == ElementOf(dom, id)
         m  == NewMetric(id, _metrics[id].value, _metrics[id].rating)
     IN  /\ el.localValue = formatValue(m, _metrics[id].value)
         /\ el.rating = _metrics[id].rating
         /\ el.marginLeft = getRelativePosition(m, _metrics[id].value)

(***************************************************************************)
(* C1: for a popup constructed without an error the status starts as       *)
(* 'Loading field data' while the fetch is pending, is replaced by exactly *)
(* one terminal outcome (a field-data comparison when CrUX.load resolved,  *)
(* 'Local metrics only' when it rejected), and a terminal status never     *)
(* changes again; the fetch only moves idle -> pending -> settled.         *)
(***************************************************************************)
C1_StatusProtocol ==
  [][ /\ (dom.status = StatusLoading =>
            dom'.status = StatusLoading \/ IsTerminalStatus(dom'.status))
      /\ (IsTerminalStatus(dom.status) => dom'.status = dom.status)
      /\ (fetch' = "pending" => dom'.status = StatusLoading)
      /\ (fetch' = "fulfilled" => IsReconciledStatus(dom'.status))
      /\ (fetch' = "rejected" => dom'.status = StatusLocalOnly)
      /\ (fetch' = "idle" => ~IsTerminalStatus(dom'.status))
      /\ (fetch' # fetch =>
            \/ fetch = "idle" /\ fetch' = "pending"
            \/ fetch = "pending" /\ fetch' \in {"fulfilled", "rejected"})
    ]_vars

C1_Witness ==
  /\ Constructed
  /\ fetch = "fulfilled"
  /\ IsReconciledStatus(dom.status)
  /\ rafQueue = <<>>

(***************************************************************************)
(* C2: CrUX.load is invoked at most once in a popup lifetime: never before *)
(* initFieldData and never for a popup constructed with an error, exactly  *)
(* once from initFieldData on, with the page URL and the form factor that  *)
(* options.preferPhoneField asks for, and not again after it settled.      *)
(***************************************************************************)
C2_SingleLoad ==
  /\ Len(calls) <= 1
  /\ (Constructed => calls = << <<url, PreferredFormFactor>> >>)
  /\ (~Constructed => calls = <<>> /\ fetch = "idle")
  /\ (error => calls = <<>>)

C2_Witness ==
  /\ fetch = "rejected"
  /\ Len(calls) = 1
  /\ calls[1][2] = "PHONE"
  /\ rafQueue = <<>>

(***************************************************************************)
(* C3: when CrUX.load rejects (FieldDataUnavailable or                     *)
(* FieldDataTransportError) the status is 'Local metrics only', no Metric  *)
(* has a distribution or a distribution bar, and every Metric's local      *)
(* value and rating are those of the local sample.                         *)
(***************************************************************************)
C3_RejectLeavesLocalOnly ==
  fetch = "rejected" =>
    /\ dom.status = StatusLocalOnly
    /\ \A id \in Ids :
         /\ metrics[id].distribution = NoDistribution
         /\ metrics[id].local = _metrics[id].value
         /\ metrics[id].rating = _metrics[id].rating
         /\ distWrites[id] = 0
         /\ ElementOf(dom, id).bars = NoBars
         /\ LocalRenderingIntact(id)

C3_Witness ==
  /\ fetch = "rejected"
  /\ outcome.reason = "FieldDataTransportError"
  /\ dom.status = StatusLocalOnly
  /\ metrics["lcp"].distribution = NoDistribution

(***************************************************************************)
(* C4: after a successful fetch a Metric has a distribution if and only if *)
(* the result lists an entry for its id; a Metric the result does not list *)
(* has no distribution and no bars, and its rendered local value, rating   *)
(* and position are as first rendered.                                     *)
(***************************************************************************)
C4_AttachedIffListed ==
  fetch = "fulfilled" =>
    \A id \in Ids :
      /\ (metrics[id].distribution # NoDistribution
            <=> EntriesFor(getMetrics(outcome), id) # {})
      /\ (EntriesFor(getMetrics(outcome), id) = {} =>
            /\ ElementOf(dom, id).bars = NoBars
            /\ metrics[id] = NewMetric(id, _metrics[id].value, _metrics[id].rating)
            /\ LocalRenderingIntact(id))

C4_Witness ==
  /\ fetch = "fulfilled"
  /\ metrics["cls"].distribution # NoDistribution
  /\ metrics["lcp"].distribution = NoDistribution
  /\ ElementOf(dom, "cls").bars # NoBars
  /\ ElementOf(dom, "lcp").bars = NoBars

(***************************************************************************)
(* C5: once CrUX.load has been invoked every Metric is rendered with the   *)
(* local value and rating of the sample, and that stays so whatever the    *)
(* fetch ends with (rejection, empty result, unknown ids, any entries).    *)
(***************************************************************************)
C5_LocalRenderedFirst ==
  calls # <<>> =>
    \A id \in Ids :
      /\ HasElement(dom, id)
      /\ ElementOf(dom, id).localValue =
           formatValue(NewMetric(id, 0, ""), _metrics[id].value)
      /\ ElementOf(dom, id).rating = _metrics[id].rating

C5_Witness ==
  /\ fetch = "fulfilled"
  /\ Len(getMetrics(outcome)) = MaxEntries
  /\ \A id \in Ids : HasElement(dom, id)
  /\ ElementOf(dom, "lcp").bars # NoBars

(***************************************************************************)
(* C6: when the result is an origin fallback the page shown is the origin  *)
(* the result reports, the status names origin-level data and every field  *)
(* hovercard names the scope 'origin'; for a page-level result the status  *)
(* is the page-level comparison and every field hovercard names 'page'.    *)
(* No field hovercard exists before a result arrived.                      *)
(***************************************************************************)
C6_OriginNeverShownAsPage ==
  /\ (fetch = "fulfilled" /\ outcome.origin # Undefined =>
        /\ dom.page = outcome.origin
        /\ dom.page \notin {PageUrl, NormalizedUrl}
        /\ dom.status = StatusOrigin(toLowerCase(PreferredFormFactor))
        /\ \A i \in 1..Len(dom.elements) :
             LET h == dom.elements[i].hovercard
             IN  h.written /\ h.field => h.scope = "origin")
  /\ (fetch = "fulfilled" /\ outcome.origin = Undefined =>
        /\ dom.status = StatusCompared(toLowerCase(PreferredFormFactor))
        /\ dom.page # OriginUrl
        /\ \A i \in 1..Len(dom.elements) :
             LET h == dom.elements[i].hovercard
             IN  h.written /\ h.field => h.scope = "page")
  /\ (fetch # "fulfilled" =>
        \A i \in 1..Len(dom.elements) :
          LET h == dom.elements[i].hovercard
          IN  h.written => ~h.field)

C6_Witness ==
  /\ fetch = "fulfilled"
  /\ outcome.origin = OriginUrl
  /\ dom.page = OriginUrl
  /\ \E i \in 1..Len(dom.elements) :
       LET h == dom.elements[i].hovercard
       IN  h.written /\ h.field /\ h.scope = "origin"

(***************************************************************************)
(* C7: each Metric's distribution is assigned at most once in a popup      *)
(* lifetime, only after a successful fetch, for every payload.             *)
(***************************************************************************)
C7_DistributionWrittenOnce ==
  \A id \in Ids :
    /\ distWrites[id] <= 1
    /\ (distWrites[id] > 0 => fetch = "fulfilled")

(***************************************************************************)
(* C8: in every state a Metric's local value and rating are those of the   *)
(* local sample, whether no field data has arrived, a distribution has     *)
(* been attached or the fetch has failed.                                  *)
(***************************************************************************)
C8_RatingFromSampleOnly ==
  metrics # <<>> =>
    \A id \in Ids :
      /\ metrics[id].local = _metrics[id].value
      /\ metrics[id].rating = _metrics[id].rating

C8_Witness ==
  /\ fetch = "fulfilled"
  /\ metrics["inp"].distribution # NoDistribution
  /\ metrics["inp"].rating = "poor"
  /\ getDensity(metrics["inp"], 0, 0).pct > getDensity(metrics["inp"], 2, 0).pct

(***************************************************************************)
(* C9: an entry whose id is not one of the popup's Metrics is dropped: the *)
(* result still ends in the reconciled status, and every Metric is         *)
(* assigned once per entry that names it and carries the distribution of   *)
(* the last such entry, wherever the unknown entries stand in the payload. *)
(***************************************************************************)
C9_UnknownEntryDropped ==
  fetch = "fulfilled" =>
    /\ IsReconciledStatus(dom.status)
    /\ DOMAIN metrics = Ids
    /\ \A id \in Ids :
         LET at == EntriesFor(getMetrics(outcome), id)
         IN  /\ distWrites[id] = Cardinality(at)
             /\ (at # {} =>
                   /\ metrics[id].distribution =
                        getDistribution(getMetrics(outcome)[Max(at)].data)
                   /\ ElementOf(dom, id).bars # NoBars)

C9_Witness ==
  /\ fetch = "fulfilled"
  /\ Len(getMetrics(outcome)) = 2
  /\ getMetrics(outcome)[1].id = UnknownId
  /\ getMetrics(outcome)[2].id = "fcp"
  /\ metrics["fcp"].distribution # NoDistribution
  /\ IsReconciledStatus(dom.status)

(***************************************************************************)
(* C10: only distributions with three non-negative fractions that sum to   *)
(* at most 1.0 are ever attached to a Metric.                              *)
(***************************************************************************)
C10_OnlyValidDistributionAttached ==
  metrics # <<>> =>
    \A id \in Ids :
      metrics[id].distribution # NoDistribution =>
        ValidDistribution(metrics[id].distribution)

(***************************************************************************)
(* C11: the client issues the page-level request first, for the page URL   *)
(* and the requested form factor; an origin-level request is issued only   *)
(* after the page-level request was answered 'not found'; after a failure  *)
(* or a timeout nothing more is requested, so a load makes at most two     *)
(* requests and only the last request can be unanswered.                   *)
(***************************************************************************)
C11_PageThenOriginOnce ==
  /\ Len(requests) <= 2
  /\ (Constructed <=> requests # <<>>)
  /\ (requests # <<>> =>
        /\ requests[1].level = "page"
        /\ requests[1].target = url
        /\ requests[1].formFactor = PreferredFormFactor)
  /\ (Len(requests) = 2 =>
        /\ requests[1].response = "not-found"
        /\ requests[2].level = "origin"
        /\ requests[2].formFactor = PreferredFormFactor)
  /\ (requests # <<>> /\ requests[1].response \in {"failure", "timeout", "record"} =>
        Len(requests) = 1)
  /\ (fetch = "rejected" => ~InFlight(requests))

C11_Witness ==
  /\ fetch = "rejected"
  /\ Len(requests) = 2
  /\ requests[1].response = "not-found"
  /\ requests[2].response = "failure"

(***************************************************************************)
(* C12: a result obtained from the origin-level request (the page-level    *)
(* request having been answered 'not found') is an origin fallback whose   *)
(* origin is the origin of the requested page, not the page URL, and the   *)
(* popup shows that origin; a result obtained from the page-level request  *)
(* is never an origin fallback.                                            *)
(***************************************************************************)
C12_OriginFallbackScope ==
  fetch = "fulfilled" =>
    /\ Last(requests).response = "record"
    /\ (Last(requests).level = "origin" =>
          /\ requests[1].response = "not-found"
          /\ isOriginFallback(outcome)
          /\ getOrigin(outcome) = originOf(url)
          /\ getOrigin(outcome) # url
          /\ dom.page = originOf(url))
    /\ (Last(requests).level = "page" =>
          /\ ~isOriginFallback(outcome)
          /\ dom.page \in {url, NormalizedUrl})

C12_Witness ==
  /\ fetch = "fulfilled"
  /\ Len(requests) = 2
  /\ Last(requests).level = "origin"
  /\ outcome.origin = OriginUrl
  /\ dom.page = OriginUrl
  /\ url = PageUrl

(***************************************************************************)
(* C13: CrUX.load rejects with FieldDataUnavailable exactly when both the  *)
(* page-level and the origin-level request were answered 'not found', and  *)
(* with FieldDataTransportError exactly when the last request failed or    *)
(* timed out.                                                              *)
(***************************************************************************)
C13_UnavailableIsNotTransport ==
  fetch = "rejected" =>
    /\ outcome.reason \in RejectReasons
    /\ (outcome.reason = "FieldDataUnavailable" <=>
          /\ Len(requests) = 2
          /\ requests[1].response = "not-found"
          /\ requests[2].response = "not-found")
    /\ (outcome.reason = "FieldDataTransportError" <=>
          Last(requests).response \in {"failure", "timeout"})

C13_Witness ==
  /\ fetch = "rejected"
  /\ Len(requests) = 2
  /\ requests[2].response = "not-found"
  /\ outcome.reason = "FieldDataUnavailable"

(***************************************************************************)
(* C14: a pending fetch is eventually settled (unless the popup is closed) *)
(* and the status does not stay 'Loading field data'; when a request timed *)
(* out the load is rejected as a transport error, the status is 'Local     *)
(* metrics only', no Metric has a distribution, and no further request is  *)
(* issued.                                                                 *)
(***************************************************************************)
TimedOut == requests # <<>> /\ Last(requests).response = "timeout"

C14_FetchBounded ==
  /\ (fetch = "pending" ~> (fetch # "pending" \/ pc = "closed"))
  /\ (dom.status = StatusLoading ~> (dom.status # StatusLoading \/ pc = "closed"))
  /\ [](TimedOut /\ fetch # "pending" =>
          /\ fetch = "rejected"
          /\ outcome.reason = "FieldDataTransportError"
          /\ dom.status = StatusLocalOnly
          /\ \A id \in Ids :
               metrics[id] = NewMetric(id, _metrics[id].value, _metrics[id].rating))
  /\ [][TimedOut => requests' = requests]_vars

C14_Witness ==
  /\ TimedOut
  /\ fetch = "rejected"
  /\ Len(requests) = 2
  /\ dom.status = StatusLocalOnly

DegradedDocument ==
  LET ms == initMetrics(_metrics)
      d0 == renderMetrics(setPage(setStatus(EmptyDom, StatusLocalOnly), url), ms, 1)
  IN  IF rafQueue = <<>> THEN runCallbacks(d0, ms, MetricIds, 1) ELSE d0

C16_DegradeCasesAlike ==
  fetch = "rejected" =>
    /\ dom = DegradedDocument
    /\ dom.status = StatusLocalOnly
    /\ \A id \in Ids : LocalRenderingIntact(id)

C16_Witness ==
  /\ fetch = "rejected"
  /\ outcome.reason = "FieldDataUnavailable"
  /\ rafQueue = <<>>
  /\ dom.status = StatusLocalOnly
  /\ ElementOf(dom, "ttfb").hovercard.written

(***************************************************************************)
(* C17: INP is a disabled kind: the popup creates no INP Metric and        *)
(* renders no INP element, so the Metrics are exactly LCP, CLS, FCP and    *)
(* TTFB and no distribution is ever attached for INP.                      *)
(***************************************************************************)
C17_InpDisabled ==
  /\ (metrics # <<>> => DOMAIN metrics = {"lcp", "cls", "fcp", "ttfb"})
  /\ ~HasElement(dom, "inp")
  /\ distWrites["inp"] = 0

C19_HovercardDensityOfOwnRating ==
  \A n \in 1..Len(dom.elements) :
    LET el == dom.elements[n]
        h  == el.hovercard
    IN  /\ (el.bars # NoBars =>
              /\ el.bars[1].rating = "good"
              /\ el.bars[2].rating = "needs-improvement"
              /\ el.bars[3].rating = "poor"
              /\ \A i \in 1..3 : el.bars[i].text.pct = metrics[el.id].distribution[i])
        /\ (h.written /\ h.field =>
              /\ el.bars # NoBars
              /\ h.assessment = _metrics[el.id].rating
              /\ \A i \in 1..3 :
                   el.bars[i].rating = h.assessment =>
                     /\ i = getAssessmentIndex(h.assessment) + 1
                     /\ h.density = el.bars[i].text
              /\ (metrics[el.id].distribution = <<62, 25, 13>>
                    /\ h.assessment = "needs-improvement" =>
                      h.density = [pct |-> 25, decimals |-> 0, available |-> TRUE]))

C19_Witness ==
  /\ fetch = "fulfilled"
  /\ metrics["cls"].rating = "needs-improvement"
  /\ metrics["cls"].distribution = <<62, 25, 13>>
  /\ ElementOf(dom, "cls").hovercard.written
  /\ ElementOf(dom, "cls").hovercard.field
  /\ ElementOf(dom, "cls").hovercard.density.pct = 25
  /\ ElementOf(dom, "cls").hovercard.scope = "page"

C21_LazyLoadOnce ==
  /\ [](\A k \in LazyTabs :
          /\ tabs.loads[k] <= 1
          /\ (tabs.loads[k] = 1 => tabs.clicks[k] >= 1)
          /\ (tabs.clicks[k] = 0 => tabs[k].state = "idle"))
  /\ [][\A k \in LazyTabs :
          tabs'.loads[k] # tabs.loads[k] =>
            /\ tabs.loads[k] = 0
            /\ tabs.clicks[k] = 0
            /\ tabs'.clicked = k]_vars

C21_Witness ==
  /\ tabs.loads["server"] = 1
  /\ tabs.server.state = "rejected"
  /\ tabs.clicks["server"] = 2
  /\ tabs.clicked = "server"
  /\ tabs.loads["dns"] = 1
  /\ tabs.dns.state = "pending"
  /\ tabs.clicks["dns"] = 2
  /\ tabs.loads["seo"] = 0

(***************************************************************************)
(* C24: the server-info request is aborted by its timer only when it is    *)
(* still in flight at 8000 ms, and ServerInfo.load then rejects with       *)
(* 'Request timeout'; once the request has settled the timer is cleared    *)
(* and never aborts; after any rejection every server field reads 'Error'  *)
(* and no second request has been issued.                                  *)
(***************************************************************************)
C24_ServerTimeout ==
  /\ [](/\ tabs.server.fetches <= 1
        /\ (tabs.server.state = "fetching" =>
              tabs.server.timer = "armed" /\ tabs.server.elapsed <= timeout)
        /\ (tabs.server.state \in {"reading", "resolved"} =>
              tabs.server.timer = "cleared")
        /\ (tabs.server.error = "Request timeout" <=> tabs.server.timer = "fired")
        /\ (tabs.server.state = "rejected" =>
              /\ tabs.server.fields = "Error"
              /\ tabs.server.fetches = 1
              /\ tabs.server.timer \in {"cleared", "fired"}))
  /\ [][tabs'.server.timer = "fired" /\ tabs.server.timer # "fired" =>
          /\ tabs.server.state = "fetching"
          /\ tabs.server.elapsed = timeout
          /\ tabs'.server.state = "rejected"]_vars
  /\ [][tabs.server.state = "fetching" /\ tabs.server.elapsed >= timeout
          /\ tabs'.server # tabs.server =>
            tabs'.server.error = "Request timeout"]_vars
  /\ [][tabs.server.timer \in {"cleared", "fired"} =>
          tabs'.server.timer = tabs.server.timer]_vars

C24_Witness ==
  /\ tabs.server.state = "rejected"
  /\ tabs.server.error = "Request timeout"
  /\ tabs.server.fields = "Error"
  /\ tabs.server.fetches = 1
  /\ tabs.clicks["server"] = 2

(***************************************************************************)
(* C29: once a tab button has been clicked, exactly one tab button and     *)
(* exactly one tab content carry the class 'active': the button clicked    *)
(* last and the content of its data-tab.                                   *)
(***************************************************************************)
C29_ActiveIsLastClicked ==
  tabs.clicked # "none" =>
    /\ tabs.activeButtons = {tabs.clicked}
    /\ tabs.activeContents = {contentOf(tabs.clicked)}

(***************************************************************************)
(* C26: once renderFieldData has written the field-data sentence into a    *)
(* Metric's hovercard, the sentence stays: when CrUX.load has resolved and *)
(* the animation-frame callbacks have run, in either order, the hovercard  *)
(* of every Metric with a distribution contains the field-data sentence.   *)
(***************************************************************************)
C26_FieldHovercardKept ==
  fetch = "fulfilled" /\ rafQueue = <<>> =>
    \A id \in DOMAIN metrics :
      metrics[id].distribution # NoDistribution =>
        /\ ElementOf(dom, id).hovercard.written
        /\ ElementOf(dom, id).hovercard.field

C22_SeoScoreRange ==
  probe.fn = "seo" =>
    LET tags == probe.data.deprecatedTags
        cost == probe.cleanScore - probe.seoScore
    IN  /\ probe.seoScore \in 0..100
        /\ probe.cleanScore \in 0..100
        /\ cost >= 0 /\ cost <= 6
        /\ (probe.cleanScore >= 6 => cost = Min(2 * tags, 6))
        /\ (probe.cleanScore < 6 => cost = Min(Min(2 * tags, 6), probe.cleanScore))

C22_Witness ==
  /\ probe.fn = "seo"
  /\ probe.data.deprecatedTags = 4
  /\ probe.data.images = <<16, 1>>
  /\ probe.cleanScore = 94
  /\ probe.seoScore = 88

C25_ExternalSourcesIsolated ==
  probe.fn = "external" =>
    LET res == probe.promise.value
        observatoryFailed == probe.observatory.kind # "data"
    IN  /\ probe.promise.settled = "resolved"
        /\ res.domainAuthority # Text("Calculating...")
        /\ res.domainRating # Text("Calculating...")
        /\ (observatoryFailed =>
              /\ res.hsts = Text("Checking...")
              /\ res.contentSecurityPolicy = Text("Checking...")
              /\ res.xFrameOptions = Text("Checking...")
              /\ res.httpsEnabled =
                   (IF probe.u.valid
                      THEN Text(IF probe.u.protocol = "https:" THEN "Yes" ELSE "No")
                      ELSE Text("Checking...")))
        /\ (probe.u.valid /\ isString(probe.domain) =>
              /\ res.domainAuthority =
                   OutOf100(calculateDomainAuthorityScore(probe.domain, probe.u.protocol))
              /\ res.domainRating =
                   OutOf100(calculateDomainRatingScore(probe.domain, probe.u.protocol))
              /\ res.backlinksEstimate # Text("Calculating...")
              /\ res.domainAge # Text("Estimating..."))

C25_Witness ==
  /\ probe.fn = "external"
  /\ probe.observatory = [kind |-> "network-error"]
  /\ probe.u = [valid |-> TRUE, protocol |-> "https:"]
  /\ probe.domain.name = "www.example.com"
  /\ probe.promise.value.hsts = Text("Checking...")
  /\ probe.promise.value.httpsEnabled = Text("Yes")
  /\ probe.promise.value.domainAuthority = OutOf100(76)
  /\ probe.promise.value.domainRating = OutOf100(81)

(***************************************************************************)
(* C28: a DNS query that fails (timeout, response not ok, network error,   *)
(* no Answer) shows 'N/A' for its record type only: every other record     *)
(* type shows its own formatted records, and DNSInfo.load resolves with    *)
(* all eight fields.                                                       *)
(***************************************************************************)
C28_DnsFailureIsolated ==
  probe.fn = "dns" =>
    /\ probe.promise.settled = "resolved"
    /\ DOMAIN probe.promise.value =
         {"domain", "aRecord", "aaaaRecord", "cname", "mx", "ns", "txt", "soa"}
    /\ probe.promise.value.domain = probe.hostname
    /\ \A t \in RecordTypes :
         LET shown == probe.promise.value[fieldOf(t)]
         IN  IF probe.queried[t].kind \in QueryFailures
               THEN shown = NotAvailable
               ELSE /\ shown # NotAvailable
                    /\ Len(shown.items) = Len(probe.queried[t].records)
                    /\ {shown.items[i].text : i \in 1..Len(shown.items)}
                         = {probe.queried[t].records[i].text :
                              i \in 1..Len(probe.queried[t].records)}

C28_Witness ==
  /\ probe.fn = "dns"
  /\ probe.queried["MX"] = [kind |-> "timeout"]
  /\ probe.promise.settled = "resolved"
  /\ probe.promise.value.mx = NotAvailable
  /\ probe.promise.value.aRecord.items = TwoRecords
  /\ probe.promise.value.txt.items = <<[priority |-> 10, text |-> "alpha", quoted |-> FALSE]>>

====
